---- MODULE Spec2Model ----
(***************************************************************************)
(* Model of BTreeDAG<T> (src/src/dag/mod.rs): a BTreeMap from a vertex to  *)
(* the BTreeSet of its successors, with cycle-checked edge insertion and   *)
(* cascading removal.  T is modelled by the integers 1..MaxVertex, whose   *)
(* order is the order in which BTreeMap and BTreeSet iterate.              *)
(***************************************************************************)
EXTENDS Integers, FiniteSets, Sequences, TLC

\* Number of distinct values of T the caller uses.
MaxVertex == 3

Vertex == 1..MaxVertex

VARIABLES
    vertices,   \* the field BTreeDAG::vertices, a function key -> successor set
    op,         \* name of the last method called
    args,       \* arguments of the last call
    ret,        \* value the last call returned (or how it aborted)
    pre         \* value of `vertices` when the last call started

vars == <<vertices, op, args, ret, pre>>

----------------------------------------------------------------------------
\* BTreeMap / BTreeSet primitives

EmptyMap == [v \in {} |-> {}]

MapInsert(m, k, s) == [v \in (DOMAIN m) \cup {k} |-> IF v = k THEN s ELSE m[v]]

MapRemove(m, k) == [v \in (DOMAIN m) \ {k} |-> m[v]]

\* First element in iteration order of a non-empty ordered set.
First(S) == CHOOSE a \in S : \A b \in S : a <= b

\* Shapes of the returned values.  res is the variant (or the abort), val the
\* carried set, flag the carried bool.
Ok(s) == [res |-> "Ok", val |-> s, flag |-> FALSE]
OkBool(b) == [res |-> "Ok", val |-> {}, flag |-> b]
Some(s) == [res |-> "Some", val |-> s, flag |-> FALSE]
None == [res |-> "None", val |-> {}, flag |-> FALSE]
Err(e) == [res |-> e, val |-> {}, flag |-> FALSE]
\* Option::unwrap on None
Panic == [res |-> "Panic", val |-> {}, flag |-> FALSE]

\* The call did not return: a panic unwinds, unbounded recursion overflows the stack.
Aborted(r) == r.res \in {"Panic", "StackOverflow"}

----------------------------------------------------------------------------
\* cyclic_relationship_exists(&self, x, y).  `active` is the set of y's of the
\* calls currently on the stack: the function reads only (self, x, y), so a
\* call that recurses into an argument already on the stack repeats itself
\* without end.

RECURSIVE cyclic_relationship_exists(_, _, _, _)
RECURSIVE cyclic_for_each(_, _, _, _)

cyclic_for_each(m, x, rest, active) ==
    IF rest = {} THEN "Ok"
    ELSE LET adj == First(rest)
             r == cyclic_relationship_exists(m, x, adj, active)
         IN  IF r # "Ok" THEN r
             ELSE cyclic_for_each(m, x, rest \ {adj}, active)

\* Variant: an unregistered y ends the branch as "not reachable".
cyclic_relationship_exists_dead_end(m, x, y, active) ==
    IF y \in DOMAIN m
    THEN IF x \notin m[y]
         THEN IF y \in active
              THEN "StackOverflow"
              ELSE cyclic_for_each(m, x, m[y], active \cup {y})
         ELSE "EdgeExists"
    ELSE "Ok"

cyclic_relationship_exists(m, x, y, active) ==
    IF y \in DOMAIN m
    THEN IF x \notin m[y]
         THEN IF y \in active
              THEN "StackOverflow"
              ELSE cyclic_for_each(m, x, m[y], active \cup {y})
         ELSE "EdgeExists"
    ELSE "VertexDoesNotExist"

----------------------------------------------------------------------------
\* Methods, as functions from the map and the arguments to the map left
\* behind and the value returned.

Outcome(m, r) == [map |-> m, ret |-> r]

\* Variant: a registered x keeps its successor set (entry().or_insert).
add_vertex_keep(m, x) ==
    IF x \in DOMAIN m
    THEN Outcome(m, Some(m[x]))
    ELSE Outcome(MapInsert(m, x, {}), None)

add_vertex(m, x) ==
    Outcome(MapInsert(m, x, {}),
            IF x \in DOMAIN m THEN Some(m[x]) ELSE None)

\* Variant: an unregistered source x is registered on the fly.
add_edge_upsert(m, x, y) ==
    LET c == cyclic_relationship_exists(m, x, y, {})
        adj_x == IF x \in DOMAIN m THEN m[x] ELSE {}
    IN  IF c # "Ok"
        THEN Outcome(m, Err(c))
        ELSE Outcome(MapInsert(m, x, adj_x \cup {y}), Ok(adj_x))

\* Variant: the reachability check is skipped for an unregistered target y.
add_edge_any_target(m, x, y) ==
    IF x \in DOMAIN m
    THEN LET c == IF y \in DOMAIN m
                  THEN cyclic_relationship_exists(m, x, y, {})
                  ELSE "Ok"
         IN  IF c # "Ok"
             THEN Outcome(m, Err(c))
             ELSE Outcome(MapInsert(m, x, m[x] \cup {y}), Ok(m[x]))
    ELSE Outcome(m, Err("VertexDoesNotExist"))

add_edge(m, x, y) ==
    IF x \in DOMAIN m
    THEN LET c == cyclic_relationship_exists(m, x, y, {})
         IN  IF c # "Ok"
             THEN Outcome(m, Err(c))
             ELSE Outcome(MapInsert(m, x, m[x] \cup {y}), Ok(m[x]))
    ELSE Outcome(m, Err("VertexDoesNotExist"))

\* Variant: removing an absent edge is an error.
remove_edge_strict(m, x, y) ==
    IF y \in DOMAIN m /\ x \in DOMAIN m /\ y \in m[x]
    THEN Outcome(MapInsert(m, x, m[x] \ {y}), Ok(m[x]))
    ELSE Outcome(m, Err("VertexDoesNotExist"))

\* Variant: only the source x is looked up.
remove_edge_source_only(m, x, y) ==
    IF x \in DOMAIN m
    THEN Outcome(MapInsert(m, x, m[x] \ {y}), Ok(m[x]))
    ELSE Outcome(m, Err("VertexDoesNotExist"))

remove_edge(m, x, y) ==
    IF y \in DOMAIN m /\ x \in DOMAIN m
    THEN Outcome(MapInsert(m, x, m[x] \ {y}), Ok(m[x]))
    ELSE Outcome(m, Err("VertexDoesNotExist"))

\* Variant of the try_for_each below: remove_edge called as (x, v.0).
RECURSIVE remove_incoming_swapped(_, _, _)
remove_incoming_swapped(m, sources, x) ==
    IF sources = {} THEN Outcome(m, Ok({}))
    ELSE LET v == First(sources)
             r == remove_edge(m, x, v)
         IN  IF r.ret.res # "Ok" THEN Outcome(r.map, r.ret)
             ELSE remove_incoming_swapped(r.map, sources \ {v}, x)

\* The try_for_each of remove_vertex over the filtered clone, in key order.
RECURSIVE remove_incoming(_, _, _)
remove_incoming(m, sources, x) ==
    IF sources = {} THEN Outcome(m, Ok({}))
    ELSE LET v == First(sources)
             r == remove_edge(m, v, x)
         IN  IF r.ret.res # "Ok" THEN Outcome(r.map, r.ret)
             ELSE remove_incoming(r.map, sources \ {v}, x)

\* Variant: the key is dropped without clearing the incoming edges.
remove_vertex_no_cleanup(m, x) ==
    IF x \in DOMAIN m
    THEN Outcome(MapRemove(m, x), Ok(m[x]))
    ELSE Outcome(m, Panic)

remove_vertex(m, x) ==
    LET sources == {v \in DOMAIN m : x \in m[v]}
        r == remove_incoming(m, sources, x)
    IN  IF r.ret.res # "Ok" THEN r
        ELSE IF x \in DOMAIN r.map
             THEN Outcome(MapRemove(r.map, x), Ok(r.map[x]))
             ELSE Outcome(r.map, Panic)

\* Variant: only the source x is looked up.
adjacent_source_only(m, x, y) ==
    IF x \in DOMAIN m
    THEN Outcome(m, OkBool(y \in m[x]))
    ELSE Outcome(m, Err("VertexDoesNotExist"))

adjacent(m, x, y) ==
    IF y \in DOMAIN m /\ x \in DOMAIN m
    THEN Outcome(m, OkBool(y \in m[x]))
    ELSE Outcome(m, Err("VertexDoesNotExist"))

RECURSIVE prune(_, _)
RECURSIVE prune_children(_, _)

prune_children(m, rest) ==
    IF rest = {} THEN Outcome(m, Ok({}))
    ELSE LET vertex == First(rest)
             r == prune(m, vertex)
         IN  IF r.ret.res # "Ok" THEN r
             ELSE prune_children(r.map, rest \ {vertex})

prune(m, x) ==
    LET r == remove_vertex(m, x)
    IN  IF r.ret.res # "Ok" THEN r
        ELSE prune_children(r.map, r.ret.val)

----------------------------------------------------------------------------
\* The state machine: one caller, one call at a time.

Init ==
    /\ vertices = EmptyMap
    /\ op = "new"
    /\ args = <<>>
    /\ ret = Ok({})
    /\ pre = EmptyMap

Call(name, a, out) ==
    /\ ~Aborted(ret)
    /\ pre' = vertices
    /\ op' = name
    /\ args' = a
    /\ vertices' = out.map
    /\ ret' = out.ret

AddVertex == \E x \in Vertex : Call("add_vertex", <<x>>, add_vertex(vertices, x))

AddEdge == \E x, y \in Vertex : Call("add_edge", <<x, y>>, add_edge(vertices, x, y))

RemoveEdge == \E x, y \in Vertex : Call("remove_edge", <<x, y>>, remove_edge(vertices, x, y))

RemoveVertex == \E x \in Vertex : Call("remove_vertex", <<x>>, remove_vertex(vertices, x))

Adjacent == \E x, y \in Vertex : Call("adjacent", <<x, y>>, adjacent(vertices, x, y))

Prune == \E x \in Vertex : Call("prune", <<x>>, prune(vertices, x))

Next ==
    \/ AddVertex
    \/ AddEdge
    \/ RemoveEdge
    \/ RemoveVertex
    \/ Adjacent
    \/ Prune

Spec == Init /\ [][Next]_vars

----------------------------------------------------------------------------
TypeOK ==
    /\ DOMAIN vertices \subseteq Vertex
    /\ \A v \in DOMAIN vertices : vertices[v] \subseteq Vertex
    /\ DOMAIN pre \subseteq Vertex
    /\ op \in {"new", "add_vertex", "add_edge", "remove_edge", "remove_vertex", "adjacent", "prune"}
    /\ ret.val \subseteq Vertex

----------------------------------------------------------------------------
\* Vocabulary of the properties.

\* Argument positions of the last call.
ArgX == args[1]
ArgY == args[2]

Keys(m) == DOMAIN m

\* Successors of v that are registered; none when v is not registered.
Successors(m, v) == IF v \in DOMAIN m THEN m[v] \cap DOMAIN m ELSE {}

RECURSIVE Closure(_, _)
Closure(m, S) ==
    LET T == S \cup UNION {Successors(m, v) : v \in S}
    IN  IF T = S THEN S ELSE Closure(m, T)

\* Registered vertices reachable from v along one or more edges.
ReachPlus(m, v) == Closure(m, Successors(m, v))

\* Registered vertices reachable from v along zero or more edges.
ReachStar(m, v) == Closure(m, {v} \cap DOMAIN m)

HasCycle(m) == \E v \in DOMAIN m : v \in ReachPlus(m, v)

\* No registered successor set holds d.
NoIncoming(m, d) == \A v \in DOMAIN m : d \notin m[v]

\* Keys the last call deleted.
Deleted == DOMAIN pre \ DOMAIN vertices

----------------------------------------------------------------------------
\* C1 (stated as in the specification; the code violates it): after any
\* sequence of add_vertex, add_edge, remove_edge, remove_vertex and prune
\* calls the graph on the registered vertices has no directed cycle, a
\* self-edge counting as a cycle of length 1.
C1_Acyclic == ~HasCycle(vertices)

\* C2 (stated as in the specification; the code violates it): when x is
\* registered and a path of one or more edges leads from y to x,
\* add_edge(x, y) returns the cycle error and leaves the map as it was.
C2_CycleRejected ==
    (op = "add_edge" /\ ArgX \in DOMAIN pre /\ ArgX \in ReachPlus(pre, ArgY))
        => (ret = Err("EdgeExists") /\ vertices = pre)

\* C3 as originally stated: add_edge(x, y) with x registered and y not
\* registered succeeds and puts y into vertices[x] without making y a key,
\* and adjacent(x, y) then fails with VertexDoesNotExist.
C3_UnregisteredTargetAccepted ==
    (op = "add_edge" /\ ArgX \in DOMAIN pre /\ ArgY \notin DOMAIN pre)
        => /\ ret.res = "Ok"
           /\ ArgY \in vertices[ArgX]
           /\ ArgY \notin DOMAIN vertices
           /\ adjacent(vertices, ArgX, ArgY).ret = Err("VertexDoesNotExist")

\* C3 amended: add_edge(x, y) with x registered and y not registered fails
\* with VertexDoesNotExist (the reachability search reports the unregistered
\* y as an error, not as "not reachable"), the map is unchanged, y is in no
\* successor set of x and is not a key, and adjacent(x, y) then fails with
\* VertexDoesNotExist.
C3_UnregisteredTargetRejected ==
    (op = "add_edge" /\ ArgX \in DOMAIN pre /\ ArgY \notin DOMAIN pre)
        => /\ ret = Err("VertexDoesNotExist")
           /\ vertices = pre
           /\ ArgY \notin vertices[ArgX]
           /\ ArgY \notin DOMAIN vertices
           /\ adjacent(vertices, ArgX, ArgY).ret = Err("VertexDoesNotExist")

\* add_edge was called with a registered source that already has edges and an
\* unregistered target.
C3_Witness ==
    /\ op = "add_edge"
    /\ ArgX \in DOMAIN pre
    /\ ArgY \notin DOMAIN pre
    /\ pre[ArgX] # {}

\* C4 (stated as in the specification; the code violates it):
\* remove_vertex(x) on an unregistered x returns VertexDoesNotExist as a value
\* (no panic on the unwrap of the map removal) and leaves the map unchanged.
C4_RemoveUnregisteredIsError ==
    (op = "remove_vertex" /\ ArgX \notin DOMAIN pre)
        => (ret = Err("VertexDoesNotExist") /\ vertices = pre)

\* C5 (stated as in the specification; the code violates it): prune(x) on a
\* registered x succeeds and removes from the key set exactly the vertices
\* reachable from x (x included) along the edges present when it started.
C5_PruneComplete ==
    (op = "prune" /\ ArgX \in DOMAIN pre)
        => /\ ret.res = "Ok"
           /\ DOMAIN vertices = DOMAIN pre \ ReachStar(pre, ArgX)

\* C6: after a successful remove_vertex(x), and after any prune call, every
\* vertex the call deleted is not a key and is in no remaining successor set.
C6_NoDanglingIncoming ==
    /\ (op = "remove_vertex" /\ ret.res = "Ok")
          => (ArgX \notin DOMAIN vertices /\ NoIncoming(vertices, ArgX))
    /\ op = "prune"
          => \A d \in Deleted : NoIncoming(vertices, d)

\* prune deleted a vertex other than its argument that a surviving vertex
\* pointed to.
C6_Witness ==
    /\ op = "prune"
    /\ \E d \in Deleted \ {ArgX} : \E v \in DOMAIN vertices : d \in pre[v]

\* C7: a successful remove_vertex(x) deletes key x and nothing else from the
\* key set, and every other key keeps its successor set except for x.
C7_RemoveVertexFrame ==
    (op = "remove_vertex" /\ ret.res = "Ok")
        => /\ DOMAIN vertices = DOMAIN pre \ {ArgX}
           /\ \A v \in DOMAIN vertices : vertices[v] = pre[v] \ {ArgX}

\* remove_vertex succeeded on a vertex that had a registered successor and an
\* incoming edge from a vertex with another successor.
C7_Witness ==
    /\ op = "remove_vertex"
    /\ ret.res = "Ok"
    /\ pre[ArgX] \cap DOMAIN vertices # {}
    /\ \E v \in DOMAIN vertices : ArgX \in pre[v] /\ pre[v] # {ArgX}

\* C8: for registered x and y, remove_edge(x, y) succeeds, leaves the key set
\* and every successor set but that of x unchanged, leaves the whole map
\* unchanged when the edge was absent, and a second remove_edge(x, y)
\* succeeds and leaves the map as the first call left it.
C8_RemoveEdgeIdempotent ==
    (op = "remove_edge" /\ ArgX \in DOMAIN pre /\ ArgY \in DOMAIN pre)
        => /\ ret.res = "Ok"
           /\ DOMAIN vertices = DOMAIN pre
           /\ \A v \in DOMAIN pre \ {ArgX} : vertices[v] = pre[v]
           /\ ArgY \notin pre[ArgX] => vertices = pre
           /\ LET again == remove_edge(vertices, ArgX, ArgY)
              IN  again.ret.res = "Ok" /\ again.map = vertices

\* remove_edge removed an edge that was present, from a source with another
\* edge.
C8_Witness ==
    /\ op = "remove_edge"
    /\ ret.res = "Ok"
    /\ ArgY \in pre[ArgX]
    /\ vertices[ArgX] # {}

\* C9: remove_edge(x, y) with x or y not registered returns
\* VertexDoesNotExist and leaves the map unchanged.
C9_RemoveEdgeNotFound ==
    (op = "remove_edge" /\ (ArgX \notin DOMAIN pre \/ ArgY \notin DOMAIN pre))
        => (ret = Err("VertexDoesNotExist") /\ vertices = pre)

\* remove_edge was called with a registered source that has edges and an
\* unregistered target.
C9_Witness ==
    /\ op = "remove_edge"
    /\ ArgX \in DOMAIN pre
    /\ pre[ArgX] # {}
    /\ ArgY \notin DOMAIN pre

\* C10: add_vertex(x) returns None for a new x and the previous successor set
\* for a registered x, leaves x registered with an empty successor set, and
\* changes no other key or successor set.
C10_AddVertex ==
    op = "add_vertex"
        => /\ ArgX \notin DOMAIN pre => ret = None
           /\ ArgX \in DOMAIN pre => ret = Some(pre[ArgX])
           /\ DOMAIN vertices = DOMAIN pre \cup {ArgX}
           /\ vertices[ArgX] = {}
           /\ \A v \in DOMAIN pre \ {ArgX} : vertices[v] = pre[v]

\* add_vertex re-added a vertex that had outgoing edges and an incoming edge,
\* and the incoming edge is still there.
C10_Witness ==
    /\ op = "add_vertex"
    /\ ArgX \in DOMAIN pre
    /\ pre[ArgX] # {}
    /\ \E v \in DOMAIN vertices \ {ArgX} : ArgX \in vertices[v]

\* C11: adjacent(x, y) never changes the map; it returns VertexDoesNotExist
\* when x or y is not a registered key, and otherwise Ok carrying the truth
\* value of y \in vertices[x].
C11_Adjacent ==
    op = "adjacent"
        => /\ vertices = pre
           /\ (ArgX \notin DOMAIN pre \/ ArgY \notin DOMAIN pre)
                 => ret = Err("VertexDoesNotExist")
           /\ (ArgX \in DOMAIN pre /\ ArgY \in DOMAIN pre)
                 => ret = OkBool(ArgY \in pre[ArgX])

\* adjacent answered true for an existing edge whose source has another
\* successor besides y.
C11_Witness ==
    /\ op = "adjacent"
    /\ ret = OkBool(TRUE)
    /\ pre[ArgX] # {ArgY}

\* C12: add_edge(x, y) with x not registered returns VertexDoesNotExist,
\* whatever y is, and leaves the map unchanged.
C12_AddEdgeSourceNotFound ==
    (op = "add_edge" /\ ArgX \notin DOMAIN pre)
        => (ret = Err("VertexDoesNotExist") /\ vertices = pre)

\* add_edge was called with an unregistered source and a registered target
\* that has successors.
C12_Witness ==
    /\ op = "add_edge"
    /\ ArgX \notin DOMAIN pre
    /\ ArgY \in DOMAIN pre
    /\ pre[ArgY] # {}

\* C13 (stated as in the specification; the code violates it): every
\* add_edge call, its recursive reachability check included, terminates and
\* returns a success or an error value.
C13_AddEdgeTerminates ==
    op = "add_edge" => ret.res \in {"Ok", "EdgeExists", "VertexDoesNotExist"}

\* C14 (stated as in the specification; the code violates it): for
\* registered x # y with no path of one or more edges from y to x,
\* add_edge(x, y) succeeds, returns the successor set x had, and changes the
\* map only by adding y to vertices[x].
C14_NoFalseRejection ==
    (/\ op = "add_edge"
     /\ ArgX \in DOMAIN pre
     /\ ArgY \in DOMAIN pre
     /\ ArgX # ArgY
     /\ ArgX \notin ReachPlus(pre, ArgY))
        => /\ ret = Ok(pre[ArgX])
           /\ vertices = MapInsert(pre, ArgX, pre[ArgX] \cup {ArgY})

\* C15 (stated as in the specification; the code violates it): when y is
\* already in vertices[x], add_edge(x, y) succeeds and leaves the map
\* unchanged, also for x = y.
C15_ReAddIdempotent ==
    (op = "add_edge" /\ ArgX \in DOMAIN pre /\ ArgY \in pre[ArgX])
        => (ret.res = "Ok" /\ vertices = pre)

\* C16 (stated as in the specification; the code violates it): a prune(x) on
\* a registered x whose cascade meets a successor that is no longer
\* registered returns VertexDoesNotExist as a value; the vertices deleted so
\* far stay deleted and the remaining entries are as before apart from the
\* edges into deleted vertices.
C16_PruneFailureIsError ==
    (op = "prune" /\ ArgX \in DOMAIN pre /\ ret.res # "Ok")
        => /\ ret = Err("VertexDoesNotExist")
           /\ ArgX \in Deleted
           /\ DOMAIN vertices \subseteq DOMAIN pre
           /\ \A v \in DOMAIN vertices : vertices[v] = pre[v] \ Deleted

\* C17 (stated as in the specification; the code violates it): a successful
\* remove_vertex(x) returns exactly the successor set x had when the call
\* started.
C17_RemoveVertexReturnsSuccessors ==
    (op = "remove_vertex" /\ ret.res = "Ok") => ret = Ok(pre[ArgX])

\* C18: every member of every successor set is a registered key.
C18_EdgesClosed ==
    \A v \in DOMAIN vertices : vertices[v] \subseteq DOMAIN vertices

\* A call has just removed a key that a surviving vertex pointed to, and that
\* vertex still has an edge.
C18_Witness ==
    /\ op \in {"remove_vertex", "prune"}
    /\ \E v \in DOMAIN vertices :
          /\ pre[v] \cap Deleted # {}
          /\ vertices[v] # {}

====
